---- MODULE Spec2Model ----
(***************************************************************************)
(* SAR narrative generator with audit trail: the case / narrative-version  *)
(* store (app/views/review_approve.py, app/views/sar_generator_page.py),   *)
(* the audit trail store (app/services/audit_service.py), the alert        *)
(* notifier (app/services/alert_service.py) and the generation             *)
(* orchestration (app/services/sar_generator.py).                          *)
(*                                                                         *)
(* Every handler opens its own SQLAlchemy session.  A handler that mutates *)
(* a case first loads the row (db.query(...).first()), changes the loaded  *)
(* object and then commits; the rows of other sessions can change between  *)
(* the load and the commit, so a handler is two steps: Load and Finish.    *)
(* Finish is the rest of the handler: the commit, the audit append and the *)
(* alert, and the return.                                                  *)
(***************************************************************************)
EXTENDS Integers, Sequences, FiniteSets, TLC

\* ---------------------------------------------------------------- bounds
MaxCases == 2
MaxCalls == 4
MaxAlerts == 3
MaxScore == 2
MaxResults == 3
MaxCounterparties == 11
MaxTransactions == 21
MaxLines == 4
MaxBullets == 3

\* ------------------------------------------------------------ value sets
NULL == "NULL"
NoCase == 0
Sessions == {"A", "B"}
CaseIdArgs == 1..MaxCases
GenTexts == {"g"}
EditTexts == {"", "t1", "t2"}
Refs == {"STR-1"}
Notes == {"n"}

MutatingOps == {"save_edited_narrative", "approve_case", "reject_case", "file_sar"}

ArgsOf(op) ==
    IF op = "save_edited_narrative" THEN EditTexts
    ELSE IF op = "file_sar" THEN Refs
    ELSE Notes

VARIABLES
    cases,      \* table sar_cases: case_id -> row
    versions,   \* table narrative_versions, in insertion order
    auditLog,   \* table audit_logs, in insertion order
    alerts,     \* table system_alerts, in insertion order
    sess,       \* per session: the handler in progress and the row it loaded
    nCalls,     \* number of handler calls started
    last,       \* the call that returned last and what it returned
    provider,   \* settings.LLM_PROVIDER.lower(), fixed for the process
    llm,        \* SARGenerator.llm is set (the client is cached)
    model_name, \* SARGenerator._model_name
    gen,        \* the last generate_narrative call: inputs and result
    call,       \* the backend call of the generate_narrative in progress
    out,        \* what the last call of the audit or alert service returned
    rag,        \* RAGService: how it is initialised, and its last retrieval
    indicators, \* the last _extract_risk_indicators call: inputs and result
    prompts,    \* the retrieval in use and two prompt assemblies, a and b
    parsed      \* the last _parse_audit_from_narrative call: text and result

storeVars == <<cases, versions, auditLog, alerts, sess, nCalls, last>>
genVars == <<provider, llm, model_name, gen>>
auxVars == <<call, out, rag, indicators, prompts, parsed>>
vars == <<cases, versions, auditLog, alerts, sess, nCalls, last,
          provider, llm, model_name, gen,
          call, out, rag, indicators, prompts, parsed>>

\* ------------------------------------------------------------ helpers
\* Python truthiness of an Optional[str]: None and "" are falsy.
Truthy(t) == t # NULL /\ t # ""

\* `a or b` on Optional[str]
PyOr(a, b) == IF Truthy(a) THEN a ELSE b

\* `(case.narrative_version or 1)`
VersionOr1(v) == IF v = 0 THEN 1 ELSE v

\* rows of narrative_versions / audit_logs of one case
VersionsOf(vs, c) == SelectSeq(vs, LAMBDA v : v.case_id = c)
AuditOf(al, c) == SelectSeq(al, LAMBDA e : e.case_id = c)

\* ACTION_CATEGORIES.get(action, "GENERAL")
ACTION_CATEGORIES(action) ==
    CASE action \in {"SAR_GENERATION_STARTED", "SAR_GENERATION_COMPLETED",
                     "SAR_GENERATION_FAILED"} -> "GENERATION"
      [] action \in {"NARRATIVE_EDITED", "NARRATIVE_SAVED"} -> "EDIT"
      [] action \in {"SAR_APPROVED", "SAR_REJECTED", "SAR_SUBMITTED",
                     "SAR_FILED"} -> "APPROVAL"
      [] action \in {"CASE_VIEWED", "CASE_CREATED", "CUSTOMER_DATA_ACCESSED",
                     "TRANSACTION_DATA_ACCESSED", "AUDIT_LOG_VIEWED"} -> "ACCESS"
      [] action \in {"USER_LOGIN", "USER_LOGOUT", "USER_LOGIN_FAILED",
                     "USER_CREATED"} -> "AUTH"
      [] action \in {"ALERT_TRIGGERED", "ALERT_ACKNOWLEDGED",
                     "ALERT_ESCALATED"} -> "ALERT"
      [] action \in {"SYSTEM_CONFIG_CHANGED", "DATA_EXPORTED"} -> "SYSTEM"
      [] OTHER -> "GENERAL"

\* AuditService.log writing its entry over the newest one
AuditReplaceNewest(al, action, case_id, success, fails) ==
    IF fails THEN al
    ELSE SubSeq(al, 1, Len(al) - 1)
         \o << [action |-> action,
                action_category |-> ACTION_CATEGORIES(action),
                case_id |-> case_id,
                success |-> success] >>

\* AuditService.log: the entry is appended, or the append fails, the
\* exception is swallowed and None is returned; the table is unchanged.
AuditAppend(al, action, case_id, success, fails) ==
    IF fails THEN al
    ELSE Append(al, [action |-> action,
                     action_category |-> ACTION_CATEGORIES(action),
                     case_id |-> case_id,
                     success |-> success])

\* ALERT_TYPES[alert_type][0]
ALERT_TYPES(alert_type) ==
    CASE alert_type \in {"NEW_CRITICAL_CASE", "SANCTIONS_HIT", "SYSTEM_ERROR"} -> "CRITICAL"
      [] alert_type \in {"NEW_HIGH_SEVERITY_CASE", "SAR_OVERDUE", "HIGH_RISK_CUSTOMER",
                         "PEP_ACTIVITY", "MULTIPLE_CASES_SAME_CUSTOMER"} -> "HIGH"
      [] alert_type \in {"NARRATIVE_GENERATED", "SAR_FILED",
                         "BULK_PROCESSING_COMPLETE"} -> "LOW"
      [] OTHER -> "MEDIUM"

\* AlertService.create_alert without email: the alert is appended, or the
\* insert fails, the exception is swallowed and None is returned.
AlertAppend(as, alert_type, severity, case_id, fails) ==
    IF fails THEN as
    ELSE Append(as, [alert_type |-> alert_type,
                     severity |-> IF severity = NULL THEN ALERT_TYPES(alert_type) ELSE severity,
                     case_id |-> case_id,
                     is_read |-> FALSE,
                     sent_via_email |-> FALSE,
                     resolved_by |-> NULL])

\* ------------------------------------------------------------ the handlers
\* The object of the session after the handler's assignments, from the row
\* the session loaded.
EditedObject(snap, new_narrative) ==
    [snap EXCEPT !.edited_narrative = new_narrative,
                 !.narrative_version = VersionOr1(snap.narrative_version) + 1]

ApprovedObject(snap) ==
    [snap EXCEPT !.final_narrative = PyOr(snap.edited_narrative, snap.generated_narrative),
                 !.status = "APPROVED"]

\* a rejection that also discards the analyst's edit
RejectedObjectDiscardingEdit(snap, reason) ==
    [snap EXCEPT !.status = "REJECTED",
                 !.rejection_reason = reason,
                 !.edited_narrative = NULL]

RejectedObject(snap, reason) ==
    [snap EXCEPT !.status = "REJECTED",
                 !.rejection_reason = reason]

FiledObject(snap, sar_ref) ==
    [snap EXCEPT !.status = "FILED",
                 !.sar_reference = sar_ref,
                 !.filed_at = "ts"]

ObjectOf(op, snap, arg) ==
    CASE op = "save_edited_narrative" -> EditedObject(snap, arg)
      [] op = "approve_case" -> ApprovedObject(snap)
      [] op = "reject_case" -> RejectedObject(snap, arg)
      [] op = "file_sar" -> FiledObject(snap, arg)

\* The NarrativeVersion the handler adds to its session (db.add(version)),
\* or none: <<>> or a one-element sequence.
EditVersion(snap, case_id, new_narrative) ==
    << [case_id |-> case_id,
        version_number |-> EditedObject(snap, new_narrative).narrative_version,
        narrative_text |-> new_narrative,
        change_type |-> "EDIT"] >>

ApprovedVersion(snap, case_id) ==
    << [case_id |-> case_id,
        version_number |-> VersionOr1(snap.narrative_version) + 1,
        narrative_text |-> PyOr(PyOr(snap.edited_narrative, snap.generated_narrative), ""),
        change_type |-> "APPROVED"] >>

NewVersionsOf(op, snap, case_id, arg) ==
    CASE op = "save_edited_narrative" -> EditVersion(snap, case_id, arg)
      [] op = "approve_case" -> ApprovedVersion(snap, case_id)
      [] OTHER -> << >>

\* db.commit(): the unit of work writes, for the loaded row, the columns
\* whose value differs from the value that was loaded (an attribute set to
\* the value it already had is not part of the UPDATE), on top of whatever
\* the row holds by now.
Flush(row, snap, obj) ==
    [f \in DOMAIN row |-> IF obj[f] # snap[f] THEN obj[f] ELSE row[f]]

\* the audit action a handler logs after its commit
AuditActionOf(op) ==
    CASE op = "save_edited_narrative" -> "NARRATIVE_EDITED"
      [] op = "approve_case" -> "SAR_APPROVED"
      [] op = "reject_case" -> "SAR_REJECTED"
      [] op = "file_sar" -> "SAR_FILED"

\* the alert a handler raises after its audit append: <<type, severity>>,
\* or none for save_edited_narrative
AlertOf(op) ==
    CASE op = "approve_case" -> <<"SAR_APPROVED", NULL>>
      [] op = "reject_case" -> <<"SAR_REJECTED", "MEDIUM">>
      [] op = "file_sar" -> <<"SAR_FILED", NULL>>
      [] OTHER -> << >>

Idle == [pc |-> "idle"]

NoCall == [n |-> 0, op |-> "none", cid |-> 0, ret |-> "none",
           commit_failed |-> FALSE, audit_failed |-> FALSE]

Returned(op, cid, ret, cf, af) ==
    [n |-> last.n + 1, op |-> op, cid |-> cid, ret |-> ret,
     commit_failed |-> cf, audit_failed |-> af]

NoBackendCall == [pc |-> "idle"]
NoReturn == [op |-> "none"]
NotInitialized ==
    [_initialized |-> FALSE, tmpl_tfidf |-> FALSE, reg_tfidf |-> FALSE, called |-> FALSE]
NotCalled == [called |-> FALSE]
NoAssembly == [done |-> FALSE]

InitAux ==
    /\ call = NoBackendCall
    /\ out = NoReturn
    /\ rag = NotInitialized
    /\ indicators = NotCalled
    /\ prompts = [retrieval |-> "none", a |-> NoAssembly, b |-> NoAssembly]
    /\ parsed = NotCalled

InitStore ==
    /\ cases = << >>
    /\ versions = << >>
    /\ auditLog = << >>
    /\ alerts = << >>
    /\ sess = [s \in Sessions |-> Idle]
    /\ nCalls = 0
    /\ last = NoCall

Init ==
    /\ InitStore
    /\ provider = "openai"
    /\ llm = FALSE
    /\ model_name = ""
    /\ gen = NotCalled
    /\ InitAux

\* save_case: one transaction inserts the case row and its GENERATED
\* version 1; on an exception the transaction is rolled back and the
\* exception is re-raised.
save_case(generated_narrative, fails) ==
    /\ nCalls < MaxCalls
    /\ Len(cases) < MaxCases
    /\ nCalls' = nCalls + 1
    /\ LET case_id == Len(cases) + 1 IN
       IF fails
       THEN /\ UNCHANGED <<cases, versions>>
            /\ last' = Returned("save_case", case_id, "raised", TRUE, FALSE)
       ELSE /\ cases' = Append(cases,
                   [status |-> "IN_REVIEW",
                    generated_narrative |-> generated_narrative,
                    edited_narrative |-> NULL,
                    final_narrative |-> NULL,
                    narrative_version |-> 1,
                    sar_reference |-> NULL,
                    filed_at |-> NULL,
                    rejection_reason |-> NULL])
            /\ versions' = Append(versions,
                   [case_id |-> case_id,
                    version_number |-> 1,
                    narrative_text |-> generated_narrative,
                    change_type |-> "GENERATED"])
            /\ last' = Returned("save_case", case_id, "case_id", FALSE, FALSE)
    /\ UNCHANGED <<auditLog, alerts, sess>>
    /\ UNCHANGED genVars
    /\ UNCHANGED auxVars

\* The query for the case, with a handler that records the miss in the
\* audit log before it returns False
LoadLoggingMiss(s, op, case_id, arg) ==
    /\ sess[s].pc = "idle"
    /\ nCalls < MaxCalls
    /\ nCalls' = nCalls + 1
    /\ IF case_id \in DOMAIN cases
       THEN /\ sess' = [sess EXCEPT ![s] = [pc |-> "loaded", op |-> op,
                                            case_id |-> case_id, arg |-> arg,
                                            snap |-> cases[case_id]]]
            /\ UNCHANGED <<last, auditLog>>
       ELSE /\ last' = Returned(op, case_id, "False", FALSE, FALSE)
            /\ auditLog' = AuditAppend(auditLog, AuditActionOf(op), case_id, FALSE, FALSE)
            /\ UNCHANGED sess
    /\ UNCHANGED <<cases, versions, alerts>>
    /\ UNCHANGED genVars
    /\ UNCHANGED auxVars

\* The first half of save_edited_narrative / approve_case / reject_case /
\* file_sar: the query for the case.  A case that does not exist makes the
\* handler return False at once.
Load(s, op, case_id, arg) ==
    /\ sess[s].pc = "idle"
    /\ nCalls < MaxCalls
    /\ nCalls' = nCalls + 1
    /\ IF case_id \in DOMAIN cases
       THEN /\ sess' = [sess EXCEPT ![s] = [pc |-> "loaded", op |-> op,
                                            case_id |-> case_id, arg |-> arg,
                                            snap |-> cases[case_id]]]
            /\ UNCHANGED last
       ELSE /\ last' = Returned(op, case_id, "False", FALSE, FALSE)
            /\ UNCHANGED sess
    /\ UNCHANGED <<cases, versions, auditLog, alerts>>
    /\ UNCHANGED genVars
    /\ UNCHANGED auxVars

\* The second half: the assignments on the loaded object, db.add(version),
\* db.commit(), then the audit append and the alert, each in a session of
\* its own that swallows its failure, and return True.  An exception of
\* the commit rolls the session back and returns False.
Finish(s, commit_fails, audit_fails, alert_fails) ==
    /\ sess[s].pc = "loaded"
    /\ LET op == sess[s].op
           c == sess[s].case_id
           snap == sess[s].snap
           arg == sess[s].arg
       IN IF commit_fails
          THEN /\ UNCHANGED <<cases, versions, auditLog, alerts>>
               /\ last' = Returned(op, c, "False", TRUE, FALSE)
          ELSE /\ cases' = [cases EXCEPT ![c] = Flush(cases[c], snap, ObjectOf(op, snap, arg))]
               /\ versions' = versions \o NewVersionsOf(op, snap, c, arg)
               /\ auditLog' = AuditAppend(auditLog, AuditActionOf(op), c, TRUE, audit_fails)
               /\ alerts' = IF AlertOf(op) = << >> THEN alerts
                            ELSE AlertAppend(alerts, AlertOf(op)[1], AlertOf(op)[2], c, alert_fails)
               /\ last' = Returned(op, c, "True", FALSE, audit_fails)
    /\ sess' = [sess EXCEPT ![s] = Idle]
    /\ UNCHANGED nCalls
    /\ UNCHANGED genVars
    /\ UNCHANGED auxVars

Next ==
    \/ \E g \in GenTexts, f \in BOOLEAN : save_case(g, f)
    \/ \E s \in Sessions, op \in MutatingOps, c \in CaseIdArgs :
          \E arg \in ArgsOf(op) : Load(s, op, c, arg)
    \/ \E s \in Sessions, cf \in BOOLEAN, af \in BOOLEAN, lf \in BOOLEAN :
          Finish(s, cf, af, lf)

Spec == Init /\ [][Next]_vars

\* ------------------------------------------------------ the review page
\* One user works on the page show_review_approve; nothing else touches
\* the store between the page's queries and the handler it calls.
Roles == {"SUPERVISOR", "ANALYST", "READ_ONLY"}

\* PERMISSIONS[role], the permissions the page asks for
PERMISSIONS(role) ==
    CASE role \in {"ADMIN", "SUPERVISOR"} ->
            {"edit_narrative", "approve_sar", "reject_sar", "file_sar"}
      [] role = "ANALYST" -> {"edit_narrative"}
      [] OTHER -> {}

has_permission(user_role, permission) == permission \in PERMISSIONS(user_role)

\* load_review_cases: the cases the select box offers
load_review_cases == {c \in DOMAIN cases : cases[c].status \in {"IN_REVIEW", "OPEN"}}

\* show_review_approve: the user selects a case of the select box and
\* presses one of the buttons the page renders for it (named by the handler
\* it calls) with the text of the field that goes with it; the handler
\* starts with its query for the case.
show_review_approve(role, selected, button, arg) ==
    /\ sess["A"].pc = "idle"
    /\ nCalls < MaxCalls
    /\ selected \in load_review_cases
    /\ LET case == cases[selected]
           current_text == PyOr(PyOr(case.edited_narrative, case.generated_narrative), "")
           undecided == case.status \notin {"APPROVED", "FILED", "CLOSED", "REJECTED"}
       IN CASE button = "save_edited_narrative" ->
                 /\ case.status \notin {"APPROVED", "FILED", "CLOSED"}
                 /\ arg # current_text
            [] button = "approve_case" ->
                 undecided /\ has_permission(role, "approve_sar")
            [] button = "reject_case" ->
                 undecided /\ has_permission(role, "approve_sar") /\ Truthy(arg)
            [] button = "file_sar" ->
                 /\ ~undecided
                 /\ case.status = "APPROVED"
                 /\ has_permission(role, "file_sar")
                 /\ Truthy(arg)
    /\ nCalls' = nCalls + 1
    /\ sess' = [sess EXCEPT !["A"] = [pc |-> "loaded", op |-> button,
                                      case_id |-> selected, arg |-> arg,
                                      snap |-> cases[selected], role |-> role]]
    /\ UNCHANGED <<cases, versions, auditLog, alerts, last>>
    /\ UNCHANGED genVars
    /\ UNCHANGED auxVars

NextReview ==
    \/ sess["A"].pc = "idle" /\ \E g \in GenTexts, f \in BOOLEAN : save_case(g, f)
    \/ \E role \in Roles, c \in CaseIdArgs, button \in MutatingOps :
          \E arg \in ArgsOf(button) : show_review_approve(role, c, button, arg)
    \/ \E cf \in BOOLEAN, af \in BOOLEAN, lf \in BOOLEAN : Finish("A", cf, af, lf)

SpecReview == Init /\ [][NextReview]_vars

\* ------------------------------------------------ alert and audit services
\* The calls of AlertService and AuditService.  Each opens a session of its
\* own and is one transaction; what it returns is kept in out.  How many
\* calls a behaviour makes is left to the specification that uses them.
AlertSeverity == {"LOW", "MEDIUM", "HIGH", "CRITICAL"}

ServiceFrame ==
    /\ UNCHANGED <<cases, versions, sess, last>>
    /\ UNCHANGED genVars
    /\ UNCHANGED <<call, rag, indicators, prompts, parsed>>

Counted == nCalls < MaxCalls /\ nCalls' = nCalls + 1

Reverse(seq) == [i \in 1..Len(seq) |-> seq[Len(seq) + 1 - i]]

\* seq[:n]
Take(seq, n) == SubSeq(seq, 1, IF n < Len(seq) THEN n ELSE Len(seq))

\* .filter(SystemAlert.is_read == False) [.filter(severity == sev)] .count()
UnreadCount(as) == Len(SelectSeq(as, LAMBDA a : ~a.is_read))
UnreadCountOf(as, sev) == Len(SelectSeq(as, LAMBDA a : a.severity = sev /\ ~a.is_read))

\* get_alert_summary without the is_read filters
SummaryOfAllAlerts(as) ==
    [total |-> Len(as),
     critical |-> Len(SelectSeq(as, LAMBDA a : a.severity = "CRITICAL")),
     high |-> Len(SelectSeq(as, LAMBDA a : a.severity = "HIGH")),
     medium |-> Len(SelectSeq(as, LAMBDA a : a.severity = "MEDIUM")),
     low |-> Len(SelectSeq(as, LAMBDA a : a.severity = "LOW"))]

\* the dictionary get_alert_summary returns
SummaryOf(as) ==
    [total |-> UnreadCount(as),
     critical |-> UnreadCountOf(as, "CRITICAL"),
     high |-> UnreadCountOf(as, "HIGH"),
     medium |-> UnreadCountOf(as, "MEDIUM"),
     low |-> UnreadCountOf(as, "LOW")]

\* _send_email_alert whose try block has no except clause
SendEmailUncaught(smtp) ==
    [attempts |-> IF smtp = "unconfigured" THEN 0 ELSE 1,
     ret |-> smtp = "sent",
     raised |-> smtp = "error"]

\* AlertService._send_email_alert (smtp: "unconfigured", "error" or
\* "sent"): without SMTP credentials the email is skipped; otherwise one
\* message is handed to the server, and an exception of that is caught.
\* The result is True only for a message that was sent.
_send_email_alert(smtp) ==
    [attempts |-> IF smtp = "unconfigured" THEN 0 ELSE 1,
     ret |-> smtp = "sent",
     raised |-> FALSE]

\* AlertService.create_alert.  The severity is the one given or the one of
\* the type; AlertSeverity(severity) raises for a value that is no
\* severity, the insert may fail; either exception is swallowed and None
\* returned.  With send_email and a HIGH or CRITICAL severity the email is
\* handed to _send_email_alert, then sent_via_email is set and committed;
\* an exception of the dispatch or of that second commit is swallowed the
\* same way, after the alert was persisted.
create_alert(alert_type, severity, case_id, send_email, insert_fails, smtp, flag_commit_fails) ==
    LET sev == IF Truthy(severity) THEN severity ELSE ALERT_TYPES(alert_type)
        refused == sev \notin AlertSeverity \/ insert_fails
        inserted == AlertAppend(alerts, alert_type, sev, case_id, refused)
        emailed == ~refused /\ send_email /\ sev \in {"HIGH", "CRITICAL"}
        email == _send_email_alert(smtp)
        flagged == emailed /\ ~email.raised /\ ~flag_commit_fails
    IN /\ Len(alerts) < MaxAlerts
       /\ alerts' = IF flagged
                    THEN [inserted EXCEPT ![Len(inserted)].sent_via_email = TRUE]
                    ELSE inserted
       /\ out' = [op |-> "create_alert",
                  ret |-> IF refused \/ (emailed /\ ~flagged) THEN "None" ELSE "alert",
                  email_requested |-> send_email /\ sev \in {"HIGH", "CRITICAL"},
                  db_failed |-> refused \/ (emailed /\ ~email.raised /\ flag_commit_fails),
                  attempts |-> IF emailed THEN email.attempts ELSE 0,
                  dispatched |-> emailed /\ email.ret]
       /\ UNCHANGED auditLog
       /\ ServiceFrame

\* AlertService.get_unread_alerts: the limit newest unread alerts, sorted
\* (stably) by severity; the ids are returned here
get_unread_alerts(limit) ==
    LET ids == [i \in 1..Len(alerts) |-> i]
        newest == Take(Reverse(SelectSeq(ids, LAMBDA i : ~alerts[i].is_read)), limit)
        of(sev) == SelectSeq(newest, LAMBDA i : alerts[i].severity = sev)
    IN /\ out' = [op |-> "get_unread_alerts",
                  ret |-> of("CRITICAL") \o of("HIGH") \o of("MEDIUM") \o of("LOW")]
       /\ UNCHANGED <<alerts, auditLog>>
       /\ ServiceFrame

\* AlertService.mark_read
mark_read(alert_id) ==
    /\ IF alert_id \in DOMAIN alerts
       THEN /\ alerts' = [alerts EXCEPT ![alert_id].is_read = TRUE]
            /\ out' = [op |-> "mark_read", ret |-> TRUE]
       ELSE /\ UNCHANGED alerts
            /\ out' = [op |-> "mark_read", ret |-> FALSE]
    /\ UNCHANGED auditLog
    /\ ServiceFrame

\* AlertService.mark_all_read: one UPDATE of the unread rows; the number of
\* rows it matched is returned
mark_all_read ==
    /\ alerts' = [i \in 1..Len(alerts) |-> [alerts[i] EXCEPT !.is_read = TRUE]]
    /\ out' = [op |-> "mark_all_read", ret |-> UnreadCount(alerts)]
    /\ UNCHANGED auditLog
    /\ ServiceFrame

\* AlertService.resolve_alert
resolve_alert(alert_id, resolved_by) ==
    /\ IF alert_id \in DOMAIN alerts
       THEN /\ alerts' = [alerts EXCEPT ![alert_id].is_read = TRUE,
                                        ![alert_id].resolved_by = resolved_by]
            /\ out' = [op |-> "resolve_alert", ret |-> TRUE]
       ELSE /\ UNCHANGED alerts
            /\ out' = [op |-> "resolve_alert", ret |-> FALSE]
    /\ UNCHANGED auditLog
    /\ ServiceFrame

\* AlertService.get_alert_summary
get_alert_summary ==
    /\ out' = [op |-> "get_alert_summary", ret |-> SummaryOf(alerts)]
    /\ UNCHANGED <<alerts, auditLog>>
    /\ ServiceFrame

\* AuditService.log called directly (SAR_GENERATION_STARTED, CASE_VIEWED,
\* USER_LOGIN, ...)
log(action, case_id, success, fails) ==
    /\ auditLog' = AuditAppend(auditLog, action, case_id, success, fails)
    /\ out' = [op |-> "log", ret |-> IF fails THEN "None" ELSE "entry"]
    /\ UNCHANGED alerts
    /\ ServiceFrame

\* AuditService.get_case_audit_trail: the entries of the case, oldest first
get_case_audit_trail(case_id) ==
    /\ out' = [op |-> "get_case_audit_trail", ret |-> AuditOf(auditLog, case_id)]
    /\ UNCHANGED <<alerts, auditLog>>
    /\ ServiceFrame

\* AuditService.get_recent_audit_logs: the newest limit entries, of one
\* category when one is given
get_recent_audit_logs(limit, category) ==
    /\ out' = [op |-> "get_recent_audit_logs",
               ret |-> Take(Reverse(IF Truthy(category)
                                    THEN SelectSeq(auditLog,
                                            LAMBDA e : e.action_category = category)
                                    ELSE auditLog), limit)]
    /\ UNCHANGED <<alerts, auditLog>>
    /\ ServiceFrame

\* AuditService.get_audit_stats
get_audit_stats ==
    /\ out' = [op |-> "get_audit_stats",
               ret |-> [total_events |-> Len(auditLog),
                        generation_events |->
                            Len(SelectSeq(auditLog, LAMBDA e : e.action_category = "GENERATION")),
                        approval_events |->
                            Len(SelectSeq(auditLog, LAMBDA e : e.action = "SAR_APPROVED")),
                        rejection_events |->
                            Len(SelectSeq(auditLog, LAMBDA e : e.action = "SAR_REJECTED")),
                        edit_events |->
                            Len(SelectSeq(auditLog, LAMBDA e : e.action = "NARRATIVE_EDITED"))]]
    /\ UNCHANGED <<alerts, auditLog>>
    /\ ServiceFrame

\* the alert types and severities the callers pass, and one value that is
\* no severity; no caller asks for an email
AlertIdArgs == 1..(MaxAlerts + 1)

NextAlerts ==
    \/ \E t \in {"NEW_CRITICAL_CASE", "NEW_HIGH_SEVERITY_CASE", "SAR_APPROVED", "SAR_FILED"},
          sev \in {NULL, "URGENT"}, f \in BOOLEAN :
          create_alert(t, sev, NoCase, FALSE, f, "unconfigured", FALSE) /\ UNCHANGED nCalls
    \/ \E limit \in {1, 5} : get_unread_alerts(limit) /\ UNCHANGED nCalls
    \/ \E id \in AlertIdArgs : mark_read(id) /\ UNCHANGED nCalls
    \/ mark_all_read /\ UNCHANGED nCalls
    \/ \E id \in AlertIdArgs, u \in {"analyst1"} : resolve_alert(id, u) /\ UNCHANGED nCalls
    \/ get_alert_summary /\ UNCHANGED nCalls

SpecAlerts == Init /\ [][NextAlerts]_vars

\* AlertService.get_alert_summary statement by statement: the session runs
\* its five count queries (total, critical, high, medium, low) one after
\* the other, each on the rows committed by then; the fifth is followed by
\* the return of the dictionary.
summary_query(s) ==
    LET SummaryKeys == <<"total", "critical", "high", "medium", "low">>
        counts == IF sess[s].pc = "summary" THEN sess[s].counts ELSE << >>
        k == Len(counts) + 1
        counted == Append(counts, SummaryOf(alerts)[SummaryKeys[k]])
    IN /\ sess[s].pc \in {"idle", "summary"}
       /\ IF k < Len(SummaryKeys)
          THEN /\ sess' = [sess EXCEPT ![s] = [pc |-> "summary", counts |-> counted]]
               /\ UNCHANGED out
          ELSE /\ sess' = [sess EXCEPT ![s] = Idle]
               /\ out' = [op |-> "get_alert_summary",
                          ret |-> [total |-> counted[1], critical |-> counted[2],
                                  high |-> counted[3], medium |-> counted[4],
                                  low |-> counted[5]]]
       /\ UNCHANGED <<cases, versions, auditLog, alerts, nCalls, last>>
       /\ UNCHANGED genVars
       /\ UNCHANGED <<call, rag, indicators, prompts, parsed>>

\* a summary of one session among the alert operations of another
NextSummary ==
    \/ summary_query("A")
    \/ \E t \in {"NEW_CRITICAL_CASE", "SAR_APPROVED"}, f \in BOOLEAN :
          create_alert(t, NULL, NoCase, FALSE, f, "unconfigured", FALSE) /\ UNCHANGED nCalls
    \/ \E id \in AlertIdArgs : mark_read(id) /\ UNCHANGED nCalls
    \/ mark_all_read /\ UNCHANGED nCalls
    \/ \E id \in AlertIdArgs, u \in {"analyst1"} : resolve_alert(id, u) /\ UNCHANGED nCalls

SpecSummary == Init /\ [][NextSummary]_vars

\* create_alert with and without an email asked for, under every outcome
\* of the dispatch and of the two commits
NextEmail ==
    \E t \in {"NEW_CRITICAL_CASE", "NEW_HIGH_SEVERITY_CASE", "SAR_APPROVED"},
       send_email \in BOOLEAN, insert_fails \in BOOLEAN,
       smtp \in {"unconfigured", "error", "sent"}, flag_commit_fails \in BOOLEAN :
        create_alert(t, NULL, NoCase, send_email, insert_fails, smtp, flag_commit_fails)
        /\ UNCHANGED nCalls

SpecEmail == Init /\ [][NextEmail]_vars

\* The audit trail under every kind of operation: direct logging and the
\* audit queries, the case operations of one session, and the alert
\* operations, MaxCalls calls in all.
LoggedActions == {"SAR_GENERATION_STARTED", "USER_LOGIN"}

NextAudit ==
    \/ \E a \in LoggedActions, f \in BOOLEAN : log(a, NoCase, TRUE, f) /\ Counted
    \/ get_case_audit_trail(1) /\ Counted
    \/ \E category \in {NULL, "APPROVAL"} : get_recent_audit_logs(1, category) /\ Counted
    \/ get_audit_stats /\ Counted
    \/ \E g \in GenTexts, f \in BOOLEAN : save_case(g, f)
    \/ \E op \in MutatingOps : \E arg \in ArgsOf(op) \ {"", "t2"} :
          Load("A", op, 1, arg)
    \/ \E cf \in BOOLEAN, af \in BOOLEAN, lf \in BOOLEAN : Finish("A", cf, af, lf)
    \/ \E f \in BOOLEAN :
          create_alert("NEW_CRITICAL_CASE", NULL, NoCase, FALSE, f, "unconfigured", FALSE)
          /\ Counted
    \/ mark_read(1) /\ Counted
    \/ mark_all_read /\ Counted
    \/ \E u \in {"analyst1"} : resolve_alert(1, u) /\ Counted
    \/ get_alert_summary /\ Counted

SpecAudit == Init /\ [][NextAudit]_vars

\* ------------------------------------------------------------ generation
\* A narrative is a sequence of lines and a line a sequence of lexemes.  A
\* key phrase occurs in a line when one of the line's lexemes holds it:
\* Phrases(t) is what lexeme t holds literally, LowerPhrases(t) what
\* t.lower() holds, UpperLevels(t) the confidence levels t.upper() holds.
HashMarker == "### AUDIT TRAIL - REASONING LOG"
PlainMarker == "AUDIT TRAIL - REASONING LOG"
TemplateBanner == "**[TEMPLATE-GENERATED - LLM UNAVAILABLE - HUMAN REVIEW REQUIRED]**"
ReviewLimitation == "Human analyst MUST review and complete this narrative before submission"
ConfidenceLevels == <<"CRITICAL", "HIGH", "MEDIUM", "LOW">>

Phrases(t) ==
    CASE t = HashMarker -> {"### AUDIT TRAIL - REASONING LOG", "AUDIT TRAIL - REASONING LOG"}
      [] t = PlainMarker -> {"AUDIT TRAIL - REASONING LOG"}
      [] t = "DATA SOURCES USED:" -> {"DATA SOURCES USED"}
      [] t = "RULES/TYPOLOGIES MATCHED:" -> {"RULES/TYPOLOGIES MATCHED"}
      [] t = "CONFIDENCE ASSESSMENT:" -> {"CONFIDENCE ASSESSMENT"}
      [] t = "LIMITATIONS AND CAVEATS:" -> {"LIMITATIONS"}
      [] t = TemplateBanner -> {"LLM UNAVAILABLE"}
      [] t = "KYC profile (see LIMITATIONS)" -> {"LIMITATIONS"}
      [] OTHER -> {}

LowerPhrases(t) ==
    CASE t = "Overall suspicion confidence:" -> {"confidence:"}
      [] t = "CONFIDENCE:" -> {"confidence:"}
      [] OTHER -> {}

UpperLevels(t) ==
    CASE t \in {"CRITICAL", "critical"} -> {"CRITICAL"}
      [] t \in {"HIGH", "high", "VERY HIGH", "HIGH_RISK_JURISDICTION",
                "HIGH RISK JURISDICTION", "no highly unusual activity"} -> {"HIGH"}
      [] t \in {"MEDIUM", "medium"} -> {"MEDIUM"}
      [] t \in {"LOW", "low", "below"} -> {"LOW"}
      [] OTHER -> {}

\* `phrase in line`
InLine(phrase, line) == \E i \in 1..Len(line) : phrase \in Phrases(line[i])
InLineLower(phrase, line) == \E i \in 1..Len(line) : phrase \in LowerPhrases(line[i])
InLineUpper(level, line) == \E i \in 1..Len(line) : level \in UpperLevels(line[i])

\* `phrase in narrative`
InText(phrase, lines) == \E k \in 1..Len(lines) : InLine(phrase, lines[k])

\* alert_type.replace('_', ' ')
ReplaceUnderscore(t) ==
    CASE t = "HIGH_RISK_JURISDICTION" -> "HIGH RISK JURISDICTION"
      [] t = "RAPID_MOVEMENT" -> "RAPID MOVEMENT"
      [] OTHER -> t

\* f"£{amount:,.2f}"
FormatMoney(amount) == "£" \o ToString(amount)

\* the places <<line, lexeme>> of the text where the marker
\* "### AUDIT TRAIL - REASONING LOG" stands
MarkerPlaces(lines) ==
    UNION { { <<k, j>> : j \in { i \in 1..Len(lines[k]) : lines[k][i] = HashMarker } }
            : k \in 1..Len(lines) }

Before(p, q) == p[1] < q[1] \/ (p[1] = q[1] /\ p[2] < q[2])

FirstPlace(places) == CHOOSE p \in places : \A q \in places : q = p \/ Before(p, q)

\* the number of pieces of narrative.split("### AUDIT TRAIL - REASONING LOG")
SplitCount(lines) == Cardinality(MarkerPlaces(lines)) + 1

\* narrative.split("### AUDIT TRAIL - REASONING LOG")[1].strip().split("\n"):
\* the lines between the first occurrence of the marker and the second
\* one (or the end of the text)
SectionLines(lines) ==
    LET places == MarkerPlaces(lines)
        from == FirstPlace(places)
        later == places \ {from}
        to == IF later = {} THEN <<Len(lines), Len(lines[Len(lines)]) + 1>>
              ELSE FirstPlace(later)
    IN [n \in 1..(to[1] - from[1] + 1) |->
          LET k == from[1] + n - 1
              lo == IF k = from[1] THEN from[2] + 1 ELSE 1
              hi == IF k = to[1] THEN to[2] - 1 ELSE Len(lines[k])
          IN SubSeq(lines[k], lo, hi)]

DefaultAudit ==
    [data_sources_used |-> << >>,
     typologies_matched |-> << >>,
     confidence_level |-> "MEDIUM",
     key_factors |-> << >>,
     limitations |-> << >>,
     rules_matched |-> << >>]

\* `for level in [...]: if level in line.upper(): ...; break`
RECURSIVE FirstLevel(_, _, _)
FirstLevel(line, k, dflt) ==
    IF k > Len(ConfidenceLevels) THEN dflt
    ELSE IF InLineUpper(ConfidenceLevels[k], line) THEN ConfidenceLevels[k]
    ELSE FirstLevel(line, k + 1, dflt)

\* one iteration of the loop over the lines of the reasoning section:
\* st = [section, audit]
ParseLine(st, line) ==
    IF InLine("DATA SOURCES USED", line) THEN [st EXCEPT !.section = "data_sources"]
    ELSE IF InLine("RULES/TYPOLOGIES MATCHED", line) THEN [st EXCEPT !.section = "typologies"]
    ELSE IF InLine("CONFIDENCE ASSESSMENT", line) THEN [st EXCEPT !.section = "confidence"]
    ELSE IF InLine("LIMITATIONS", line) THEN [st EXCEPT !.section = "limitations"]
    ELSE IF Len(line) >= 2 /\ line[1] = "-" /\ st.section # NULL
    THEN LET item == Tail(line) IN
         CASE st.section = "data_sources" ->
                [st EXCEPT !.audit.data_sources_used = Append(@, item)]
           [] st.section = "typologies" ->
                [st EXCEPT !.audit.typologies_matched = Append(@, item),
                           !.audit.rules_matched = Append(@, item)]
           [] st.section = "confidence" ->
                IF InLineLower("confidence:", line)
                THEN [st EXCEPT !.audit.confidence_level = FirstLevel(line, 1, @)]
                ELSE [st EXCEPT !.audit.key_factors = Append(@, item)]
           [] st.section = "limitations" ->
                [st EXCEPT !.audit.limitations = Append(@, item)]
    ELSE st

\* F(v), with v evaluated once, before F is applied to it
ApplyTo(F(_), v) == CHOOSE r \in { F(x) : x \in {v} } : TRUE

RECURSIVE ParseLines(_, _, _)
ParseLines(st, lines, k) ==
    IF k > Len(lines) THEN st
    ELSE ApplyTo(LAMBDA s : ParseLines(s, lines, k + 1), ParseLine(st, lines[k]))

\* the try block of _parse_audit_from_narrative: the exception it ends
\* with, if any, and the audit dict as it stands then
ParseTry(narrative) ==
    IF InText("AUDIT TRAIL - REASONING LOG", narrative)
    THEN IF SplitCount(narrative) < 2
         THEN [exception |-> "IndexError", audit |-> DefaultAudit]    \* [1] of one piece
         ELSE [exception |-> NULL,
               audit |-> ApplyTo(LAMBDA lines :
                                    ParseLines([section |-> NULL, audit |-> DefaultAudit],
                                               lines, 1),
                                 SectionLines(narrative)).audit]
    ELSE [exception |-> NULL, audit |-> DefaultAudit]

\* a try block without an except clause lets the exception through
NoExceptClause(exception) == exception

\* `except Exception as e: logger.warning(...)`: what gets past the clause
ExceptException(exception) == NULL

\* SARGenerator._parse_audit_from_narrative: the exception of the try block
\* is caught and the audit dict is returned
_parse_audit_from_narrative(narrative) == ParseTry(narrative).audit

\* SARGenerator._generate_template_fallback
_generate_template_fallback(customer, alert) ==
    LET name == customer.full_name
        cid == customer.customer_id
        amount == FormatMoney(alert.total_amount)
        tx_count == ToString(alert.transaction_count)
        alert_type == alert.alert_type
    IN << <<"## SUSPICIOUS ACTIVITY REPORT - DRAFT NARRATIVE">>,
          <<TemplateBanner>>,
          <<"### 1. EXECUTIVE SUMMARY">>,
          <<"This Suspicious Activity Report is filed in respect of", name,
            "(Customer ID:", cid, ")">>,
          <<"following detection of", ReplaceUnderscore(alert_type), "activity.">>,
          <<"transactions totalling", amount, "across", tx_count, "transactions">>,
          <<"### 2. SUBJECT INFORMATION">>,
          <<"-", "**Full Name:**", name>>,
          <<"-", "**Customer ID:**", cid>>,
          <<"-", "**Occupation:**", customer.occupation>>,
          <<"-", "**Risk Rating:**", customer.risk_rating>>,
          <<"-", "**PEP Status:**", IF customer.pep_status THEN "YES" ELSE "NO">>,
          <<"### 3. DESCRIPTION OF SUSPICIOUS ACTIVITY">>,
          <<"The account was flagged for", ReplaceUnderscore(alert_type)>>,
          <<"The total value of transactions under review amounts to", amount,
            "across", tx_count, "individual">>,
          <<"### 4. TIMELINE OF EVENTS">>,
          <<"### 5. TYPOLOGY MATCH">>,
          <<"### 6. REGULATORY BASIS FOR FILING">>,
          <<"### 7. CONCLUSION">>,
          <<"Recommend human analyst review and completion of this narrative. LLM generation was unavailable.">>,
          <<HashMarker>>,
          <<"DATA SOURCES USED:">>,
          <<"-", "Customer KYC profile (customer_id:", cid, ")">>,
          <<"-", "Transaction alert data (alert_type:", alert_type, ")">>,
          <<"-", "Template-based fallback (LLM unavailable)">>,
          <<"RULES/TYPOLOGIES MATCHED:">>,
          <<"-", ReplaceUnderscore(alert_type), "pattern detected">>,
          <<"CONFIDENCE ASSESSMENT:">>,
          <<"-", "Overall suspicion confidence:", "LOW">>,
          <<"-", "Key factors driving the assessment: LLM unavailable, requires human review">>,
          <<"LIMITATIONS AND CAVEATS:">>,
          <<"-", "This narrative was generated using a template fallback; LLM was not available">>,
          <<"-", ReviewLimitation>> >>

\* the providers _get_llm knows, and the name it records for each
SupportedProviders == {"openai", "azure", "ollama", "local", "groq"}
Providers == SupportedProviders \cup {"bedrock"}

ModelNameOf(p) ==
    CASE p = "openai" -> "gpt-4o"
      [] p = "azure" -> "azure:"
      [] p \in {"ollama", "local"} -> "ollama:llama3.1"
      [] p = "groq" -> "groq:llama-3.3-70b-versatile"

\* SARGenerator._get_llm: "cached" when self.llm is set, otherwise the
\* provider's client is built ("built"), or building it raises
\* ("init_error"), or the provider is not one of the supported
\* ("unsupported_provider"); every exception is re-raised to the caller.
_get_llm(cached, p, init_fails) ==
    IF cached THEN "cached"
    ELSE IF p \notin SupportedProviders THEN "unsupported_provider"
    ELSE IF init_fails THEN "init_error"
    ELSE "built"

\* the texts a working backend answers with
Responses ==
    { << <<"1. EXECUTIVE SUMMARY">>,
         <<HashMarker>>,
         <<"DATA SOURCES USED:">>,
         <<"-", "KYC profile">>,
         <<"RULES/TYPOLOGIES MATCHED:">>,
         <<"-", "Structuring">>,
         <<"CONFIDENCE ASSESSMENT:">>,
         <<"-", "Overall suspicion confidence:", "HIGH">>,
         <<"LIMITATIONS AND CAVEATS:">>,
         <<"-", "No counterparty data">> >>,
      << <<"1. EXECUTIVE SUMMARY">> >>,
      << <<"1. EXECUTIVE SUMMARY">>,
         <<PlainMarker>>,
         <<"CONFIDENCE ASSESSMENT:">>,
         <<"-", "Overall suspicion confidence:", "CRITICAL">> >> }

\* the customers and alerts of the seed data and of the manual entry form
\* (Full Name and Customer ID are free text there)
Customers ==
    [full_name : {"Arjun Sharma", HashMarker},
     customer_id : {"CUST-001"},
     occupation : {"Business Owner"},
     risk_rating : {"HIGH"},
     pep_status : {FALSE}]

AlertInputs ==
    [alert_type : {"STRUCTURING", "HIGH_RISK_JURISDICTION", "RAPID_MOVEMENT"},
     total_amount : {487500},
     transaction_count : {47}]

\* the body of generate_narrative after the prompt is built: the try block
\* around _get_llm and llm.invoke, the fallback of its except clause, the
\* parse of the narrative and the GenerationResult.
GenerationResult(narrative, failure, model, tokens) ==
    ApplyTo(LAMBDA audit :
               [raised |-> FALSE,
                failure |-> failure,
                narrative |-> narrative,
                audit_trail |-> audit,
                model_used |-> model,
                tokens_used |-> tokens,
                confidence_level |-> audit.confidence_level,
                typologies_matched |-> audit.typologies_matched,
                data_sources_used |-> audit.data_sources_used,
                rules_matched |-> audit.rules_matched],
            _parse_audit_from_narrative(narrative))

\* what the except clause of generate_narrative does with an exception of
\* the try block: the template fallback replaces the narrative
OnBackendFailure(customer, alert, failure, model) ==
    GenerationResult(_generate_template_fallback(customer, alert), failure, model, NULL)

generate_narrative(customer, alert, init_fails, invoke_fails, response, tokens) ==
    LET got == _get_llm(llm, provider, init_fails)
        ready == got \in {"cached", "built"}
        model == IF got = "built" THEN ModelNameOf(provider) ELSE model_name
    IN /\ llm' = ready
       /\ model_name' = model
       /\ gen' = [called |-> TRUE, customer |-> customer, alert |-> alert,
                  result |-> IF ~ready
                             THEN OnBackendFailure(customer, alert, got, model)
                             ELSE IF invoke_fails
                             THEN OnBackendFailure(customer, alert, "invoke_exception", model)
                             ELSE GenerationResult(response, "none", model, tokens)]
       /\ UNCHANGED provider
       /\ UNCHANGED storeVars
       /\ UNCHANGED auxVars

InitGen ==
    /\ InitStore
    /\ provider \in Providers
    /\ llm = FALSE
    /\ model_name = ""
    /\ gen = NotCalled
    /\ InitAux

NextGen ==
    \E customer \in Customers, alert \in AlertInputs, init_fails \in BOOLEAN,
       invoke_fails \in BOOLEAN, response \in Responses, tokens \in {NULL, "1200"} :
        generate_narrative(customer, alert, init_fails, invoke_fails, response, tokens)

SpecGen == InitGen /\ [][NextGen]_vars

\* ------------------------------------------------- generation, step by step
\* generate_narrative with the backend call as a step of its own: the call
\* of llm.invoke is handed to the backend, which answers, raises, or does
\* neither.  No timeout is passed to a client (ChatOpenAI, AzureChatOpenAI,
\* ChatOllama, ChatGroq are built without one) and no caller wraps the
\* call in one, so nothing in the program ends a call the backend leaves
\* unanswered.
PendingCall(pc, customer, alert, failure, response, tokens) ==
    [pc |-> pc, customer |-> customer, alert |-> alert, failure |-> failure,
     response |-> response, tokens |-> tokens]

\* generate_narrative up to llm.invoke(messages): _get_llm raises inside the
\* try block, or the messages are sent
StartGeneration(customer, alert, init_fails) ==
    LET got == _get_llm(llm, provider, init_fails)
        ready == got \in {"cached", "built"}
    IN /\ call.pc \in {"idle", "returned"}
       /\ llm' = ready
       /\ model_name' = IF got = "built" THEN ModelNameOf(provider) ELSE model_name
       /\ call' = IF ready
                  THEN PendingCall("invoking", customer, alert, "none", << >>, NULL)
                  ELSE PendingCall("raised", customer, alert, got, << >>, NULL)
       /\ UNCHANGED <<provider, gen>>
       /\ UNCHANGED storeVars
       /\ UNCHANGED <<out, rag, indicators, prompts, parsed>>

\* the backend: llm.invoke returns a response
BackendAnswers(response, tokens) ==
    /\ call.pc = "invoking"
    /\ call' = [call EXCEPT !.pc = "answered", !.response = response, !.tokens = tokens]
    /\ UNCHANGED genVars
    /\ UNCHANGED storeVars
    /\ UNCHANGED <<out, rag, indicators, prompts, parsed>>

\* the backend: llm.invoke raises (network, auth, quota)
BackendRaises ==
    /\ call.pc = "invoking"
    /\ call' = [call EXCEPT !.pc = "raised", !.failure = "invoke_exception"]
    /\ UNCHANGED genVars
    /\ UNCHANGED storeVars
    /\ UNCHANGED <<out, rag, indicators, prompts, parsed>>

\* the backend: the connection stays open and no answer comes; llm.invoke
\* keeps blocking the thread of generate_narrative
BackendHangs ==
    /\ call.pc = "invoking"
    /\ call' = [call EXCEPT !.pc = "hung"]
    /\ UNCHANGED genVars
    /\ UNCHANGED storeVars
    /\ UNCHANGED <<out, rag, indicators, prompts, parsed>>

\* the rest of generate_narrative once llm.invoke has returned or the try
\* block has raised: the except clause, the parse and the GenerationResult
CompleteGeneration ==
    /\ call.pc \in {"answered", "raised"}
    /\ gen' = [called |-> TRUE, customer |-> call.customer, alert |-> call.alert,
               result |-> IF call.pc = "raised"
                          THEN OnBackendFailure(call.customer, call.alert,
                                                call.failure, model_name)
                          ELSE GenerationResult(call.response, "none",
                                                model_name, call.tokens)]
    /\ call' = [call EXCEPT !.pc = "returned"]
    /\ UNCHANGED <<provider, llm, model_name>>
    /\ UNCHANGED storeVars
    /\ UNCHANGED <<out, rag, indicators, prompts, parsed>>

NextTimeout ==
    \/ \E customer \in Customers, alert \in AlertInputs, init_fails \in BOOLEAN :
          StartGeneration(customer, alert, init_fails)
    \/ \E response \in Responses, tokens \in {NULL, "1200"} :
          BackendAnswers(response, tokens)
    \/ BackendRaises
    \/ BackendHangs
    \/ CompleteGeneration

\* The thread of generate_narrative runs whenever it can: once the backend
\* call is over the function completes.  Nothing obliges the backend to
\* answer.
SpecTimeout == InitGen /\ [][NextTimeout]_vars /\ WF_vars(CompleteGeneration)

\* ------------------------------------------- the generate-from-alert flow
\* show_sar_generator, the branch of the Generate button.  The page thread
\* logs SAR_GENERATION_STARTED (no case id), calls generate_narrative,
\* which runs as the steps above, and deals with what comes back.
generate_clicked ==
    /\ sess["A"].pc = "idle"
    /\ nCalls < MaxCalls
    /\ Len(cases) < MaxCases
    /\ nCalls' = nCalls + 1
    /\ auditLog' = AuditAppend(auditLog, "SAR_GENERATION_STARTED", NoCase, TRUE, FALSE)
    /\ sess' = [sess EXCEPT !["A"] = [pc |-> "generating"]]
    /\ call' = NoBackendCall
    /\ UNCHANGED <<cases, versions, alerts, last>>
    /\ UNCHANGED genVars
    /\ UNCHANGED <<out, rag, indicators, prompts, parsed>>

\* generate_narrative has returned: save_case inserts the case and its
\* first version in one transaction, log_generation appends
\* SAR_GENERATION_COMPLETED and the NARRATIVE_GENERATED alert is raised; an
\* exception of save_case is caught by the page, which appends
\* SAR_GENERATION_FAILED with success False.
generation_returned(save_fails, alert_fails) ==
    /\ sess["A"].pc = "generating"
    /\ call.pc = "returned"
    /\ LET case_id == Len(cases) + 1 IN
       IF save_fails
       THEN /\ auditLog' = AuditAppend(auditLog, "SAR_GENERATION_FAILED", NoCase, FALSE, FALSE)
            /\ last' = Returned("save_case", case_id, "raised", TRUE, FALSE)
            /\ UNCHANGED <<cases, versions, alerts>>
       ELSE /\ cases' = Append(cases,
                   [status |-> "IN_REVIEW",
                    generated_narrative |-> gen.result.narrative,
                    edited_narrative |-> NULL,
                    final_narrative |-> NULL,
                    narrative_version |-> 1,
                    sar_reference |-> NULL,
                    filed_at |-> NULL,
                    rejection_reason |-> NULL])
            /\ versions' = Append(versions,
                   [case_id |-> case_id,
                    version_number |-> 1,
                    narrative_text |-> gen.result.narrative,
                    change_type |-> "GENERATED"])
            /\ auditLog' = AuditAppend(auditLog, "SAR_GENERATION_COMPLETED", case_id, TRUE, FALSE)
            /\ alerts' = AlertAppend(alerts, "NARRATIVE_GENERATED", NULL, case_id, alert_fails)
            /\ last' = Returned("save_case", case_id, "case_id", FALSE, FALSE)
    /\ sess' = [sess EXCEPT !["A"] = Idle]
    /\ UNCHANGED nCalls
    /\ UNCHANGED genVars
    /\ UNCHANGED auxVars

NextFlow ==
    \/ generate_clicked
    \/ /\ sess["A"].pc = "generating" /\ call.pc = "idle"
       /\ \E customer \in Customers, alert \in AlertInputs, init_fails \in BOOLEAN :
             StartGeneration(customer, alert, init_fails)
    \/ sess["A"].pc = "generating" /\ \E response \in Responses : BackendAnswers(response, NULL)
    \/ sess["A"].pc = "generating" /\ BackendRaises
    \/ sess["A"].pc = "generating" /\ BackendHangs
    \/ sess["A"].pc = "generating" /\ CompleteGeneration
    \/ \E save_fails \in BOOLEAN, alert_fails \in BOOLEAN :
          generation_returned(save_fails, alert_fails)

\* The page thread runs whenever it can; nothing obliges the backend to
\* answer.
SpecFlow ==
    /\ InitGen
    /\ [][NextFlow]_vars
    /\ WF_vars(sess["A"].pc = "generating" /\ call.pc = "idle"
               /\ \E customer \in Customers, alert \in AlertInputs :
                     StartGeneration(customer, alert, FALSE))
    /\ WF_vars(sess["A"].pc = "generating" /\ CompleteGeneration)
    /\ WF_vars(generation_returned(FALSE, FALSE))

\* ------------------------------------------------------------ retrieval
\* rag_service.py: the two corpora, by document id, in corpus order
SAR_TEMPLATES ==
    <<"tmpl_structured_layering", "tmpl_rapid_movement", "tmpl_trade_based",
      "tmpl_fraud_proceeds", "tmpl_high_risk_jurisdiction">>

REGULATORY_GUIDELINES ==
    <<"reg_pmla_2002", "reg_rbi_kyc_directions", "reg_fatf_typologies",
      "reg_fiu_ind_guidelines", "reg_aml_red_flags_india">>

\* A query is represented by the score it gives each document of the corpus
\* (cosine similarity in TF-IDF mode, number of query words found in keyword
\* mode); only the order of the scores and which of them are zero matter to
\* the retrieval code, so scores are ranks 0..MaxScore.
DocPositions == 1..Len(SAR_TEMPLATES)
ScoreVectors == [DocPositions -> 0..MaxScore]

Orders ==
    {p \in [DocPositions -> DocPositions] :
        \A i, j \in DocPositions : p[i] = p[j] => i = j}

\* np.argsort(scores): the positions in ascending order of score; numpy's
\* default sort is not stable, so equal scores come out in either order
Argsort ==
    [scores \in ScoreVectors |->
        {p \in Orders :
            \A i, j \in DocPositions : i < j => scores[p[i]] <= scores[p[j]]}]

\* list.sort(key=score, reverse=True): descending, stable
StableDescending ==
    [scores \in ScoreVectors |->
        CHOOSE p \in Orders :
            \A i, j \in DocPositions : i < j =>
                \/ scores[p[i]] > scores[p[j]]
                \/ scores[p[i]] = scores[p[j]] /\ p[i] < p[j]]

\* _tfidf_retrieve: the results it can return
_tfidf_retrieve(scores, docs, n, raises) ==
    IF raises
    THEN {Take(docs, n)}
    ELSE {LET top_idx == SelectSeq(Take(Reverse(p), n), LAMBDA i : scores[i] > 0)
          IN [k \in 1..Len(top_idx) |-> docs[top_idx[k]]] :
            p \in Argsort[scores]}

_keyword_retrieve(scores, docs, n) ==
    LET scored == Take(StableDescending[scores], n)
    IN [k \in 1..Len(scored) |-> docs[scored[k]]]

\* initialize: what the try block leaves behind
InitOutcomes == {"ok", "ImportError", "fit_templates_raises", "fit_regulations_raises"}

Initialized(outcome) ==
    [_initialized |-> TRUE,
     tmpl_tfidf |-> outcome \in {"ok", "fit_regulations_raises"},
     reg_tfidf |-> outcome = "ok",
     called |-> FALSE]

RagFrame == UNCHANGED <<storeVars, genVars, call, out, indicators, prompts, parsed>>

initialize(outcome) ==
    /\ ~rag._initialized
    /\ rag' = Initialized(outcome)
    /\ RagFrame

\* retrieve_templates / retrieve_regulations: initialise on first use, then
\* TF-IDF retrieval when the vectorizer and the matrix of the corpus are
\* both there, keyword retrieval otherwise.  A behaviour holds one retrieval:
\* the functions keep nothing between calls but the initialisation.
Retrieve(corpus, docs, scores, n, raises, outcome) ==
    /\ ~rag.called
    /\ rag._initialized => outcome = "ok"
    /\ LET st == IF rag._initialized THEN rag ELSE Initialized(outcome)
           tfidf == IF corpus = "templates" THEN st.tmpl_tfidf ELSE st.reg_tfidf
       IN /\ raises => tfidf
          /\ \E result \in (IF tfidf THEN _tfidf_retrieve(scores, docs, n, raises)
                                     ELSE {_keyword_retrieve(scores, docs, n)}) :
                rag' = [_initialized |-> TRUE,
                        tmpl_tfidf |-> st.tmpl_tfidf,
                        reg_tfidf |-> st.reg_tfidf,
                        called |-> TRUE,
                        corpus |-> corpus,
                        docs |-> docs,
                        tfidf |-> tfidf,
                        scores |-> scores,
                        n |-> n,
                        raised |-> raises,
                        result |-> result]
    /\ RagFrame

retrieve_templates(scores, n_results, raises, outcome) ==
    Retrieve("templates", SAR_TEMPLATES, scores, n_results, raises, outcome)

retrieve_regulations(scores, n_results, raises, outcome) ==
    Retrieve("regulations", REGULATORY_GUIDELINES, scores, n_results, raises, outcome)

\* the inputs of a retrieval are drawn only where one can take place
NextRag ==
    \/ \E outcome \in InitOutcomes : initialize(outcome)
    \/ /\ ~rag.called
       /\ \E scores \in ScoreVectors, n \in 0..MaxResults, raises \in BOOLEAN,
             outcome \in InitOutcomes :
             retrieve_templates(scores, n, raises, outcome)
    \/ /\ ~rag.called
       /\ \E scores \in ScoreVectors, n \in 0..MaxResults, raises \in BOOLEAN,
             outcome \in InitOutcomes :
             retrieve_regulations(scores, n, raises, outcome)

SpecRag == Init /\ [][NextRag]_vars

\* ----------------------------------------------------- risk indicators
\* An indicator string is the line of its lexemes: the rule's label and the
\* values the f-string formats into it.
HighRiskJurisdictions ==
    {"Iran", "North Korea", "Syria", "Russia", "Afghanistan", "Myanmar"}
PassThroughTypes == {"RAPID_MOVEMENT", "ROUND_TRIP", "PASS_THROUGH"}

\* alert_type.upper()
Upper(t) ==
    CASE t = "rapid_movement" -> "RAPID_MOVEMENT"
      [] OTHER -> t

AppendIf(list, cond, item) == IF cond THEN Append(list, item) ELSE list

_extract_risk_indicators(customer, alert, transactions) ==
    LET total_amount == alert.total_amount
        tx_count == alert.transaction_count
        high_risk_j == SelectSeq(alert.jurisdictions_involved,
                                 LAMBDA j : j \in HighRiskJurisdictions)
        amounts_near_threshold ==
            SelectSeq(transactions, LAMBDA a : 8000 <= a /\ a <= 9999)
        annual_income == customer.annual_income
        counterparties == alert.counterparties
        i1 == AppendIf(<< >>, total_amount > 10000,
                       <<"HIGH VALUE:", FormatMoney(total_amount)>>)
        i2 == AppendIf(i1, tx_count > 10,
                       <<"HIGH FREQUENCY:", ToString(tx_count)>>)
        i3 == AppendIf(i2, customer.pep_status, <<"PEP CUSTOMER:">>)
        i4 == AppendIf(i3, customer.risk_rating \in {"HIGH", "VERY HIGH"},
                       <<"HIGH RISK CUSTOMER:", customer.risk_rating>>)
        i5 == AppendIf(i4, high_risk_j # << >>,
                       <<"HIGH RISK JURISDICTION:">> \o high_risk_j)
        i6 == AppendIf(i5, transactions # << >> /\ amounts_near_threshold # << >>,
                       <<"STRUCTURING SUSPECTED:", ToString(Len(amounts_near_threshold))>>)
        i7 == AppendIf(i6, Upper(alert.alert_type) \in PassThroughTypes,
                       <<"PASS-THROUGH PATTERN:">>)
        i8 == AppendIf(i7, annual_income # 0
                             /\ total_amount > annual_income * 2,
                       <<"INCOME DISPARITY:", FormatMoney(total_amount),
                         FormatMoney(annual_income)>>)
        i9 == AppendIf(i8, Len(counterparties) > 10,
                       <<"MULTIPLE COUNTERPARTIES:", ToString(Len(counterparties))>>)
    IN i9 \o [k \in 1..Len(alert.triggering_factors) |->
                <<alert.triggering_factors[k]>>]

\* the inputs of the seed data and of the manual entry form: the form takes
\* an annual income and a total amount from 0 upwards
Counterparties(n) == [k \in 1..n |-> "CP-" \o ToString(k)]

IndicatorCustomers ==
    [pep_status : BOOLEAN,
     risk_rating : {"MEDIUM", "HIGH", "VERY HIGH"},
     annual_income : {0, 85000}]

IndicatorAlerts ==
    [alert_type : {"STRUCTURING", "rapid_movement"},
     total_amount : {5000, 487500},
     transaction_count : {5, 47},
     jurisdictions_involved : {<< >>, <<"UAE">>, <<"Iran", "UAE", "Russia">>},
     counterparties : {Counterparties(2), Counterparties(MaxCounterparties)},
     triggering_factors : {<< >>, <<"Cash deposits below threshold", "47 senders">>}]

\* one extraction per behaviour: the function keeps nothing between calls
extract_risk_indicators(customer, alert, transactions) ==
    /\ ~indicators.called
    /\ indicators' = [called |-> TRUE,
                      customer |-> customer,
                      alert |-> alert,
                      transactions |-> transactions,
                      result |-> _extract_risk_indicators(customer, alert, transactions)]
    /\ UNCHANGED <<storeVars, genVars, call, out, rag, prompts, parsed>>

NextIndicators ==
    \E customer \in IndicatorCustomers, alert \in IndicatorAlerts,
       transactions \in {<< >>, <<5000>>, <<5000, 9200>>, <<9200, 9600, 9950>>} :
        extract_risk_indicators(customer, alert, transactions)

SpecIndicators == Init /\ [][NextIndicators]_vars

\* ------------------------------------------------------ prompt assembly
\* A prompt is the line of its lexemes; the fixed text of
\* NARRATIVE_PROMPT_TEMPLATE appears as the section labels.

\* json.dumps of a string, and of a list of strings; a number is written
\* by ToString
Quote(s) == "\"" \o s \o "\""
JsonStrings(list) == <<"[">> \o [k \in 1..Len(list) |-> Quote(list[k])] \o <<"]">>

\* json.dumps(customer_data, indent=2, default=str)
JsonCustomer(customer) ==
    <<"{", "\"annual_income\":", ToString(customer.annual_income),
      "\"risk_rating\":", Quote(customer.risk_rating),
      "\"pep_status\":", IF customer.pep_status THEN "true" ELSE "false",
      "}">>

\* json.dumps(alert_data, indent=2, default=str)
JsonAlert(alert) ==
    <<"{", "\"alert_type\":", Quote(alert.alert_type),
      "\"total_amount\":", ToString(alert.total_amount),
      "\"transaction_count\":", ToString(alert.transaction_count)>>
    \o <<"\"jurisdictions_involved\":">> \o JsonStrings(alert.jurisdictions_involved)
    \o <<"\"counterparties\":">> \o JsonStrings(alert.counterparties)
    \o <<"\"triggering_factors\":">> \o JsonStrings(alert.triggering_factors)
    \o <<"}">>

JsonTransaction(t) ==
    <<"{", "\"amount\":", ToString(t.amount),
      "\"counterparty\":", Quote(t.counterparty), "}">>

RECURSIVE Flatten(_, _)
Flatten(seqs, k) ==
    IF k > Len(seqs) THEN << >> ELSE seqs[k] \o Flatten(seqs, k + 1)

\* json.dumps(transaction_data, indent=2, default=str)
JsonTransactions(list) ==
    <<"[">> \o Flatten([k \in 1..Len(list) |-> JsonTransaction(list[k])], 1) \o <<"]">>

\* "\n\n---\n\n".join(...) or "No specific ... retrieved."
ContextText(label, docs, none) ==
    IF docs = << >> THEN <<none>>
    ELSE Flatten([k \in 1..Len(docs) |-> <<label, docs[k]>>], 1)

\* the transactions that go into the prompt
PromptTransactionLimit == 20

\* a prompt that leaves the hosting environment out
PromptWithoutEnvironment(customer_data, alert_data, transaction_data, rag_context, hosting_environment) ==
    <<"CUSTOMER DATA:">> \o JsonCustomer(customer_data)
    \o <<"ALERT DATA:">> \o JsonAlert(alert_data)
    \o <<"TRANSACTION DATA:">>
    \o JsonTransactions(Take(transaction_data, PromptTransactionLimit))
    \o <<"RISK INDICATORS:", "[">>
    \o Flatten(_extract_risk_indicators(
                   customer_data, alert_data,
                   [k \in 1..Len(transaction_data) |-> transaction_data[k].amount]), 1)
    \o <<"]", "SAR TEMPLATES:">>
    \o ContextText("Template:", rag_context.templates, "No specific templates retrieved.")
    \o <<"REGULATORY GUIDELINES:">>
    \o ContextText("Regulation:", rag_context.regulations, "No specific regulations retrieved.")

_build_prompt(customer_data, alert_data, transaction_data, rag_context, hosting_environment) ==
    <<"CUSTOMER DATA:">> \o JsonCustomer(customer_data)
    \o <<"ALERT DATA:">> \o JsonAlert(alert_data)
    \o <<"TRANSACTION DATA:">>
    \o JsonTransactions(Take(transaction_data, PromptTransactionLimit))
    \o <<"RISK INDICATORS:", "[">>
    \o Flatten(_extract_risk_indicators(
                   customer_data, alert_data,
                   [k \in 1..Len(transaction_data) |-> transaction_data[k].amount]), 1)
    \o <<"]", "HOSTING ENVIRONMENT:", hosting_environment>>
    \o <<"SAR TEMPLATES:">>
    \o ContextText("Template:", rag_context.templates, "No specific templates retrieved.")
    \o <<"REGULATORY GUIDELINES:">>
    \o ContextText("Regulation:", rag_context.regulations, "No specific regulations retrieved.")

\* hashlib.sha256(user_prompt.encode()).hexdigest()[:16], with the hash
\* taken as collision-free: the digest stands for the text it was made of
PromptHash(user_prompt) == <<"sha256">> \o user_prompt

\* f"{alert_type} {tx_summary}"
QueryOf(alert) ==
    <<alert.alert_type, "Total:", ToString(alert.total_amount),
      "Count:", ToString(alert.transaction_count)>>

\* the alerts and the transaction lists of two assemblies: lists of 2 and
\* of MaxTransactions transactions that differ in the first and in the
\* last counterparty
PromptAlerts ==
    [alert_type : {"STRUCTURING", "RAPID_MOVEMENT"},
     total_amount : {5000, 487500},
     transaction_count : {47},
     jurisdictions_involved : {<<"UAE">>},
     counterparties : {Counterparties(2)},
     triggering_factors : {<<"Cash deposits below threshold">>}]

PromptTransactionLists ==
    {[k \in 1..n |->
        [amount |-> 9200,
         counterparty |-> IF k = 1 THEN first ELSE IF k = n THEN final ELSE "ACC-0003"]] :
        n \in {2, MaxTransactions},
        first \in {"ACC-0001", "ACC-0002"},
        final \in {"ACC-0001", "ACC-0002"}}

\* what retrieve_all_context returns: some documents or none.  Within a
\* process the retrieval is a function of the query; which function is
\* left open.
Retrievals ==
    [{QueryOf(alert) : alert \in PromptAlerts} ->
        {[templates |-> << >>, regulations |-> << >>],
         [templates |-> Take(SAR_TEMPLATES, 2),
          regulations |-> Take(REGULATORY_GUIDELINES, 3)]}]

\* generate_narrative up to the prompt hash: retrieval, prompt, fingerprint;
\* the first call of a behaviour is kept as assembly a, the second as b
assemble(customer, alert, transactions, hosting_environment) ==
    /\ ~prompts.b.done
    /\ LET assembly ==
               ApplyTo(LAMBDA user_prompt :
                          [done |-> TRUE,
                           customer |-> customer,
                           alert |-> alert,
                           transactions |-> transactions,
                           hosting_environment |-> hosting_environment,
                           user_prompt |-> user_prompt,
                           prompt_hash |-> PromptHash(user_prompt)],
                       _build_prompt(customer, alert, transactions,
                                     prompts.retrieval[QueryOf(alert)],
                                     hosting_environment))
       IN prompts' = IF prompts.a.done THEN [prompts EXCEPT !.b = assembly]
                                       ELSE [prompts EXCEPT !.a = assembly]
    /\ UNCHANGED <<storeVars, genVars, call, out, rag, indicators, parsed>>

InitPrompt ==
    /\ InitStore
    /\ provider = "openai"
    /\ llm = FALSE
    /\ model_name = ""
    /\ gen = NotCalled
    /\ call = NoBackendCall
    /\ out = NoReturn
    /\ rag = NotInitialized
    /\ indicators = NotCalled
    /\ prompts \in [retrieval : Retrievals, a : {NoAssembly}, b : {NoAssembly}]
    /\ parsed = NotCalled

NextPrompt ==
    /\ ~prompts.b.done
    /\ \E customer \in [pep_status : {FALSE}, risk_rating : {"HIGH", "MEDIUM"},
                        annual_income : {85000}],
          alert \in PromptAlerts,
          transactions \in PromptTransactionLists,
          hosting_environment \in {"on-premises", "cloud-aws"} :
          assemble(customer, alert, transactions, hosting_environment)

SpecPrompt == InitPrompt /\ [][NextPrompt]_vars

\* --------------------------------------------------- reasoning trailer
\* the texts given to _parse_audit_from_narrative: every text of up to
\* MaxLines lines over LineAlphabet, and the trailers of the documented
\* layout with up to MaxBullets lines under each header
PlainLine == <<"Narrative text">>
KycBullet == <<"-", "Customer KYC profile">>
DataSourcesHeader == <<"DATA SOURCES USED:">>
TypologiesHeader == <<"RULES/TYPOLOGIES MATCHED:">>

LineAlphabet ==
    {PlainLine, <<HashMarker>>, <<PlainMarker>>, <<"### AUDIT TRAIL">>,
     DataSourcesHeader, TypologiesHeader, KycBullet,
     <<"Narrative text", HashMarker, "DATA SOURCES USED:">>}

\* the runs of lines under a header: bullets, one of them holding a header
\* phrase, and lines without a bullet
LineRuns ==
    UNION {[1..n -> {KycBullet, <<"-", "Transaction alert data">>,
                     <<"-", "KYC profile (see LIMITATIONS)">>, PlainLine}] :
           n \in 0..MaxBullets}

Trailers ==
    {<<PlainLine, <<HashMarker>>>> \o before \o <<DataSourcesHeader>> \o sources
        \o <<TypologiesHeader>> \o typologies :
        before \in {<< >>, <<KycBullet>>}, sources \in LineRuns, typologies \in LineRuns}

\* the lines of a confidence subsection: the bullet of the documented
\* layout with one or two words after the label, a bullet of a key
\* factor, and a line without a bullet
ConfidenceLineSet ==
    {<<"-", "Overall suspicion confidence:", w>> :
        w \in {"CRITICAL", "HIGH", "MEDIUM", "LOW", "high", "below", "unknown"}}
    \cup {<<"-", "Overall suspicion confidence:", "LOW", "no highly unusual activity">>,
          <<"-", "Overall suspicion confidence:", "LOW", "CRITICAL">>,
          <<"-", "Overall suspicion confidence:", "MEDIUM", "HIGH">>,
          <<"-", "Structuring below threshold">>,
          PlainLine}

ConfidenceTrailers ==
    {<<PlainLine, <<HashMarker>>, <<"CONFIDENCE ASSESSMENT:">>>> \o run :
        run \in UNION {[1..n -> ConfidenceLineSet] : n \in 0..MaxBullets}}

ParseTexts ==
    UNION {[1..n -> LineAlphabet] : n \in 0..MaxLines} \cup Trailers \cup ConfidenceTrailers

\* one call per behaviour: the function keeps nothing between calls
parse_audit_from_narrative(narrative) ==
    /\ ~parsed.called
    /\ parsed' = ApplyTo(LAMBDA t :
                            [called |-> TRUE,
                             text |-> narrative,
                             raised |-> ExceptException(t.exception) # NULL,
                             audit |-> t.audit],
                         ParseTry(narrative))
    /\ UNCHANGED <<storeVars, genVars, call, out, rag, indicators, prompts>>

NextParse ==
    /\ ~parsed.called
    /\ \E narrative \in ParseTexts : parse_audit_from_narrative(narrative)

SpecParse == Init /\ [][NextParse]_vars

\* ------------------------------------------------------------ steps
\* the step in which session s finishes a call of op
Finishes(s, op) ==
    /\ sess[s].pc = "loaded"
    /\ sess[s].op = op
    /\ sess'[s].pc = "idle"

\* a call of one of ops returned in this step
Returns(ops) == last'.n # last.n /\ last'.op \in ops

LockedStatuses == {"APPROVED", "FILED", "CLOSED"}

\* the edges of the documented status machine
\* OPEN -> IN_REVIEW -> {APPROVED -> FILED, REJECTED} -> CLOSED
StatusEdges ==
    {<<"OPEN", "IN_REVIEW">>, <<"OPEN", "APPROVED">>, <<"OPEN", "REJECTED">>,
     <<"IN_REVIEW", "APPROVED">>, <<"IN_REVIEW", "REJECTED">>,
     <<"APPROVED", "FILED">>, <<"FILED", "CLOSED">>, <<"REJECTED", "CLOSED">>}

IsPrefix(a, b) == Len(a) <= Len(b) /\ SubSeq(b, 1, Len(a)) = a

StrictlyIncreasing(vs) ==
    \A i, j \in 1..Len(vs) : i < j => vs[i].version_number < vs[j].version_number

\* ------------------------------------------------------------ claims

\* C1: file_sar called on a case whose current status is not APPROVED is
\* rejected (returns False) and leaves the case row, the narrative
\* versions and the audit log unchanged.
C1_FileRejectedUnlessApproved ==
    [][\A s \in Sessions :
          (Finishes(s, "file_sar") /\ cases[sess[s].case_id].status # "APPROVED")
          => (last'.ret = "False" /\ cases' = cases /\ versions' = versions
              /\ auditLog' = auditLog)]_vars

\* C2: when the audit append fails during save_edited_narrative,
\* approve_case, reject_case or file_sar, neither the case row nor the
\* version history of the case advances.
C2_AuditFailureRollsBack ==
    [][(Returns(MutatingOps) /\ last'.audit_failed)
          => (cases' = cases /\ versions' = versions)]_vars

\* C3: every successful save_edited_narrative, approve_case or file_sar
\* adds exactly one NarrativeVersion row and exactly one AuditLog row for
\* the case.
C3_OneVersionOneAuditPerSuccess ==
    [][(Returns({"save_edited_narrative", "approve_case", "file_sar"})
        /\ last'.ret = "True")
          => /\ Len(VersionsOf(versions', last'.cid)) = Len(VersionsOf(versions, last'.cid)) + 1
             /\ Len(AuditOf(auditLog', last'.cid)) = Len(AuditOf(auditLog, last'.cid)) + 1]_vars

\* C4: in every reachable state a case's final_narrative is set only if
\* the case's status is APPROVED or FILED.
C4_FinalOnlyWhenApprovedOrFiled ==
    \A c \in DOMAIN cases :
        cases[c].final_narrative # NULL => cases[c].status \in {"APPROVED", "FILED"}

\* C5: after every successful save_edited_narrative and every successful
\* approve_case the case's narrative_version is greater than it was when
\* the call read it.
C5_VersionCounterIncreases ==
    [][\A s \in Sessions :
          ((Finishes(s, "save_edited_narrative") \/ Finishes(s, "approve_case"))
           /\ last'.ret = "True")
          => cases'[sess[s].case_id].narrative_version > sess[s].snap.narrative_version]_vars

\* C6: the NarrativeVersion rows are append-only, and within one case
\* their version numbers strictly increase in append order.
C6_VersionsAppendOnlyIncreasing ==
    [][/\ IsPrefix(versions, versions')
       /\ \A c \in DOMAIN cases' : StrictlyIncreasing(VersionsOf(versions', c))]_vars

\* C7: save_edited_narrative on a case whose status is APPROVED, FILED or
\* CLOSED when the edit is saved is refused: it returns False, changes
\* neither edited_narrative nor narrative_version and appends no version.
C7_EditRefusedWhenLocked ==
    [][\A s \in Sessions :
          (Finishes(s, "save_edited_narrative")
           /\ cases[sess[s].case_id].status \in LockedStatuses)
          => /\ last'.ret = "False"
             /\ cases'[sess[s].case_id].edited_narrative = cases[sess[s].case_id].edited_narrative
             /\ cases'[sess[s].case_id].narrative_version = cases[sess[s].case_id].narrative_version
             /\ versions' = versions]_vars

\* C8: every change of a case's status made by approve_case, reject_case
\* or file_sar follows an edge of the status machine.
C8_StatusFollowsMachine ==
    [][Returns({"approve_case", "reject_case", "file_sar"})
          => \A c \in DOMAIN cases :
                cases'[c].status # cases[c].status
                => <<cases[c].status, cases'[c].status>> \in StatusEdges]_vars

\* C9: every successful save_edited_narrative, also one that interleaves
\* with another on the same case, appends its own version row holding the
\* text it wrote, and leaves the case's edited_narrative equal to that
\* text (the call that committed last wins).
C9_LastWriterWins ==
    [][\A s \in Sessions :
          (Finishes(s, "save_edited_narrative") /\ last'.ret = "True")
          => /\ Len(versions') = Len(versions) + 1
             /\ versions'[Len(versions')].case_id = sess[s].case_id
             /\ versions'[Len(versions')].narrative_text = sess[s].arg
             /\ IsPrefix(versions, versions')
             /\ cases'[sess[s].case_id].edited_narrative = sess[s].arg]_vars

\* C10: for every failure of the generation backend (client
\* initialisation error, unsupported provider, exception of the backend
\* call) generate_narrative returns a result, not an exception, whose
\* narrative holds the marker "LLM UNAVAILABLE", whose confidence_level is
\* LOW and whose limitations say that human review is required.
C10_FallbackOnBackendFailure ==
    (gen.called /\ gen.result.failure # "none")
    => /\ ~gen.result.raised
       /\ InText("LLM UNAVAILABLE", gen.result.narrative)
       /\ gen.result.confidence_level = "LOW"
       /\ \E i \in 1..Len(gen.result.audit_trail.limitations) :
             gen.result.audit_trail.limitations[i] = <<ReviewLimitation>>

\* C11: when the backend call does not return, generate_narrative still
\* eventually returns a GenerationResult that carries the template
\* fallback narrative, as it does on a backend error.
C11_HungCallFallsBack ==
    (call.pc = "hung")
    ~> (call.pc = "returned" /\ gen.called
        /\ InText("LLM UNAVAILABLE", gen.result.narrative))

\* C12: the audit log is write-once and append-only: under logging, case
\* operations, alert operations and queries every entry that was appended
\* stays where it is with its fields unchanged, and the number of entries
\* never decreases.
C12_AuditLogAppendOnly ==
    [][IsPrefix(auditLog, auditLog')]_vars

\* an audit trail with an entry of a case operation and a directly logged
\* one, just read by a query
C12_Witness ==
    /\ out.op \in {"get_case_audit_trail", "get_recent_audit_logs"}
    /\ Len(out.ret) >= 1
    /\ \E i, j \in 1..Len(auditLog) :
          /\ auditLog[i].action \in LoggedActions
          /\ auditLog[j].action_category \in {"EDIT", "APPROVAL"}

\* C13: a persistence failure (of the commit of the case mutation, or of
\* the audit append) in save_edited_narrative, approve_case, reject_case or
\* file_sar reaches the caller as an outcome that is neither the one of a
\* success nor the one of "case not found" (False).
C13_PersistenceFailureDistinct ==
    [][(Returns(MutatingOps) /\ (last'.commit_failed \/ last'.audit_failed))
          => last'.ret \notin {"True", "False"}]_vars

\* the unread alerts, and those of one severity
Unread(as) == {i \in DOMAIN as : ~as[i].is_read}
UnreadOf(as, sev) == {i \in Unread(as) : as[i].severity = sev}

\* C20: get_alert_summary returns for each severity the number of unread
\* alerts of that severity and as total the number of all unread alerts;
\* mark_all_read returns the number of alerts that were unread, and the
\* summary after it is zero in every count.
C20_SummaryCountsUnread ==
    [][/\ out'.op = "get_alert_summary"
          => /\ out'.ret.total = Cardinality(Unread(alerts))
             /\ out'.ret.critical = Cardinality(UnreadOf(alerts, "CRITICAL"))
             /\ out'.ret.high = Cardinality(UnreadOf(alerts, "HIGH"))
             /\ out'.ret.medium = Cardinality(UnreadOf(alerts, "MEDIUM"))
             /\ out'.ret.low = Cardinality(UnreadOf(alerts, "LOW"))
       /\ out'.op = "mark_all_read"
          => /\ out'.ret = Cardinality(Unread(alerts))
             /\ SummaryOf(alerts') = [total |-> 0, critical |-> 0, high |-> 0,
                                      medium |-> 0, low |-> 0]]_vars

\* one CRITICAL and two HIGH alerts were raised and summarised as
\* {total 3, critical 1, high 2, medium 0, low 0}
C20_Witness ==
    /\ out.op = "get_alert_summary"
    /\ out.ret = [total |-> 3, critical |-> 1, high |-> 2, medium |-> 0, low |-> 0]
    /\ Cardinality(UnreadOf(alerts, "CRITICAL")) = 1
    /\ Cardinality(UnreadOf(alerts, "HIGH")) = 2

\* the score the retrieval's query gives a returned document
ScoreOfDoc(r, doc) == r.scores[CHOOSE i \in DocPositions : r.docs[i] = doc]

\* C14: retrieve_templates and retrieve_regulations return at most k
\* documents, in descending order of score, documents of equal score in
\* corpus order.
C14_TopKDescendingStable ==
    rag.called =>
        /\ Len(rag.result) <= rag.n
        /\ \A i, j \in 1..Len(rag.result) : i < j =>
            \/ ScoreOfDoc(rag, rag.result[i]) > ScoreOfDoc(rag, rag.result[j])
            \/ /\ ScoreOfDoc(rag, rag.result[i]) = ScoreOfDoc(rag, rag.result[j])
               /\ (CHOOSE p \in DocPositions : rag.docs[p] = rag.result[i])
                     < (CHOOSE p \in DocPositions : rag.docs[p] = rag.result[j])

\* C15: a document whose score for the query is zero is never returned, in
\* TF-IDF mode, in keyword mode and when scoring raises.
C15_ZeroScoreNeverReturned ==
    rag.called =>
        \A i \in 1..Len(rag.result) : ScoreOfDoc(rag, rag.result[i]) > 0

\* the indicator of a rule whose own condition holds, none otherwise
FiredBy(cond, item) == IF cond THEN <<item>> ELSE << >>

\* the list the rules give when each is evaluated on its own, in the order
\* of their declaration, followed by the triggering factors
IndependentRules(customer, alert, transactions) ==
    LET near == SelectSeq(transactions, LAMBDA a : a \in 8000..9999)
        high == SelectSeq(alert.jurisdictions_involved,
                          LAMBDA j : j \in HighRiskJurisdictions)
    IN FiredBy(alert.total_amount > 10000,
               <<"HIGH VALUE:", FormatMoney(alert.total_amount)>>)
       \o FiredBy(alert.transaction_count > 10,
                  <<"HIGH FREQUENCY:", ToString(alert.transaction_count)>>)
       \o FiredBy(customer.pep_status, <<"PEP CUSTOMER:">>)
       \o FiredBy(customer.risk_rating \in {"HIGH", "VERY HIGH"},
                  <<"HIGH RISK CUSTOMER:", customer.risk_rating>>)
       \o FiredBy(Len(high) > 0, <<"HIGH RISK JURISDICTION:">> \o high)
       \o FiredBy(Len(near) > 0, <<"STRUCTURING SUSPECTED:", ToString(Len(near))>>)
       \o FiredBy(Upper(alert.alert_type) \in PassThroughTypes,
                  <<"PASS-THROUGH PATTERN:">>)
       \o FiredBy(alert.total_amount > 2 * customer.annual_income,
                  <<"INCOME DISPARITY:", FormatMoney(alert.total_amount),
                    FormatMoney(customer.annual_income)>>)
       \o FiredBy(Len(alert.counterparties) > 10,
                  <<"MULTIPLE COUNTERPARTIES:", ToString(Len(alert.counterparties))>>)
       \o [k \in 1..Len(alert.triggering_factors) |-> <<alert.triggering_factors[k]>>]

\* C16: _extract_risk_indicators returns exactly one indicator for each rule
\* whose own condition holds, in rule declaration order, followed by the
\* alert's triggering factors verbatim.
C16_EveryRuleIndependently ==
    indicators.called =>
        indicators.result =
            IndependentRules(indicators.customer, indicators.alert,
                             indicators.transactions)

\* the places where the inputs of two assemblies differ: a field of the
\* customer, of the alert, of a transaction, or the hosting environment
DifferingFields(x, y) ==
    {<<"customer", f>> : f \in {g \in DOMAIN x.customer : x.customer[g] # y.customer[g]}}
    \cup {<<"alert", f>> : f \in {g \in DOMAIN x.alert : x.alert[g] # y.alert[g]}}
    \cup (IF x.hosting_environment # y.hosting_environment
          THEN {<<"hosting_environment">>} ELSE {})
    \cup (IF Len(x.transactions) # Len(y.transactions)
          THEN {<<"transactions", 0, "len">>}
          ELSE UNION {{<<"transactions", k, f>> :
                          f \in {g \in DOMAIN x.transactions[k] :
                                    x.transactions[k][g] # y.transactions[k][g]}} :
                      k \in 1..Len(x.transactions)})

BothAssembled == prompts.a.done /\ prompts.b.done

\* C17 as stated: identical inputs give the identical fingerprint, inputs
\* that differ in a single field give different fingerprints.
C17_FingerprintOfInputs ==
    BothAssembled =>
        /\ DifferingFields(prompts.a, prompts.b) = {}
              => prompts.a.prompt_hash = prompts.b.prompt_hash
        /\ Cardinality(DifferingFields(prompts.a, prompts.b)) = 1
              => prompts.a.prompt_hash # prompts.b.prompt_hash

\* the differing places that the prompt shows: all but the fields of the
\* transactions after the first PromptTransactionLimit
PromptedFields(places) ==
    {p \in places : p[1] = "transactions" => p[2] <= PromptTransactionLimit}

\* C17 amended: identical inputs give the identical fingerprint; inputs
\* that differ in a field of the customer, of the alert, of the hosting
\* environment or of one of the first 20 transactions give different
\* fingerprints.
C17_FingerprintOfPromptedInputs ==
    BothAssembled =>
        /\ DifferingFields(prompts.a, prompts.b) = {}
              => prompts.a.prompt_hash = prompts.b.prompt_hash
        /\ (/\ Len(prompts.a.transactions) = Len(prompts.b.transactions)
            /\ PromptedFields(DifferingFields(prompts.a, prompts.b)) # {})
              => prompts.a.prompt_hash # prompts.b.prompt_hash

C17_Witness ==
    /\ BothAssembled
    /\ Len(prompts.a.transactions) > PromptTransactionLimit
    /\ DifferingFields(prompts.a, prompts.b) = {<<"transactions", 1, "counterparty">>}
    /\ prompts.a.prompt_hash # prompts.b.prompt_hash

\* C18: _parse_audit_from_narrative returns without raising; when the text
\* does not hold the marker "### AUDIT TRAIL - REASONING LOG" (no marker, or
\* a partial or malformed one) the result is the default: confidence_level
\* MEDIUM and empty lists.
C18_ParserNeverRaisesDefaults ==
    parsed.called =>
        /\ ~parsed.raised
        /\ MarkerPlaces(parsed.text) = {} => parsed.audit = DefaultAudit

C18_Witness ==
    /\ parsed.called
    /\ ~parsed.raised
    /\ InText("AUDIT TRAIL - REASONING LOG", parsed.text)
    /\ MarkerPlaces(parsed.text) = {}
    /\ \E k \in 1..Len(parsed.text) : parsed.text[k] = DataSourcesHeader
    /\ \E k \in 1..Len(parsed.text) : parsed.text[k] = KycBullet
    /\ parsed.audit = DefaultAudit

\* a bulleted line
IsBullet(line) == Len(line) >= 2 /\ line[1] = "-"

\* the section a header line opens, NULL for a line that is not a header
HeaderOf(line) ==
    IF IsBullet(line) THEN NULL
    ELSE IF InLine("DATA SOURCES USED", line) THEN "data_sources"
    ELSE IF InLine("RULES/TYPOLOGIES MATCHED", line) THEN "typologies"
    ELSE IF InLine("CONFIDENCE ASSESSMENT", line) THEN "confidence"
    ELSE IF InLine("LIMITATIONS", line) THEN "limitations"
    ELSE NULL

\* the bullets of lines[k..] that stand under a header of section wanted,
\* current being the section of the most recently seen header
RECURSIVE BulletsUnder(_, _, _, _)
BulletsUnder(wanted, lines, k, current) ==
    IF k > Len(lines) THEN << >>
    ELSE IF HeaderOf(lines[k]) # NULL
         THEN BulletsUnder(wanted, lines, k + 1, HeaderOf(lines[k]))
         ELSE (IF IsBullet(lines[k]) /\ current = wanted
               THEN <<Tail(lines[k])>> ELSE << >>)
              \o BulletsUnder(wanted, lines, k + 1, current)

\* C19: on a well-formed trailer the data-source list is the sequence of
\* bullets under the data-sources header and the typology list the sequence
\* of bullets under the typologies header, in their order; bullets before
\* the first header and lines without a bullet are ignored.
C19_BulletsUnderLatestHeader ==
    (parsed.called /\ parsed.text \in Trailers) =>
        /\ parsed.audit.data_sources_used
              = BulletsUnder("data_sources", SectionLines(parsed.text), 1, NULL)
        /\ parsed.audit.typologies_matched
              = BulletsUnder("typologies", SectionLines(parsed.text), 1, NULL)

\* C21: create_alert with an email asked for and a HIGH or CRITICAL
\* severity, the database accepting its writes, persists the alert and
\* returns it whatever the dispatch does, and hands the email over at most
\* once.
C21_DispatchFailureKeepsAlert ==
    [][(/\ out' # out
        /\ out'.op = "create_alert"
        /\ out'.email_requested
        /\ ~out'.db_failed)
       => /\ out'.ret = "alert"
          /\ Len(alerts') = Len(alerts) + 1
          /\ out'.attempts <= 1]_vars

C21_Witness ==
    /\ out.op = "create_alert"
    /\ out.email_requested
    /\ ~out.db_failed
    /\ out.attempts = 1
    /\ ~out.dispatched
    /\ out.ret = "alert"
    /\ alerts # << >>

\* C26: sent_via_email becomes true only for an alert whose email was
\* dispatched successfully.
C26_SentFlagMeansDispatched ==
    [][\A i \in DOMAIN alerts' :
          (alerts'[i].sent_via_email /\ i \notin DOMAIN alerts)
              => (out'.op = "create_alert" /\ out'.dispatched)]_vars


\* C30: save_edited_narrative, approve_case, reject_case and file_sar
\* called with the id of a case that does not exist return False, modify no
\* case row and add no NarrativeVersion, AuditLog or SystemAlert row.
C30_MissingCaseChangesNothing ==
    [][(Returns(MutatingOps) /\ last'.cid \notin DOMAIN cases)
          => /\ last'.ret = "False"
             /\ cases' = cases
             /\ versions' = versions
             /\ auditLog' = auditLog
             /\ alerts' = alerts]_vars

\* a call for a missing case has returned while another case exists
C30_Witness ==
    /\ last.op \in MutatingOps
    /\ last.cid \notin DOMAIN cases
    /\ last.ret = "False"
    /\ cases # << >>


\* the text of the last committed edit of a case, or NULL
LastEditText(vs, c) ==
    LET edits == SelectSeq(vs, LAMBDA v : v.case_id = c /\ v.change_type = "EDIT")
    IN IF edits = << >> THEN NULL ELSE edits[Len(edits)].narrative_text

\* C22: a successful approve_case, nothing having been committed on the
\* case since the call read it, sets final_narrative to the edited
\* narrative when the case has one and otherwise to the generated
\* narrative, sets the status APPROVED, and appends an APPROVED version
\* with that same text; after edits, final_narrative is the text of the
\* last committed edit.
C22_ApprovalTakesLastEdit ==
    [][\A s \in Sessions :
          (/\ Finishes(s, "approve_case")
           /\ last'.ret = "True"
           /\ sess[s].snap = cases[sess[s].case_id])
          => LET c == sess[s].case_id
                 final == cases'[c].final_narrative
             IN /\ final = IF cases[c].edited_narrative # NULL
                           THEN cases[c].edited_narrative
                           ELSE cases[c].generated_narrative
                /\ cases'[c].status = "APPROVED"
                /\ Len(versions') = Len(versions) + 1
                /\ versions'[Len(versions')].change_type = "APPROVED"
                /\ versions'[Len(versions')].narrative_text = final
                /\ LastEditText(versions, c) # NULL
                   => final = LastEditText(versions, c)]_vars


LevelWords(t) ==
    CASE t \in {"CRITICAL", "critical"} -> {"CRITICAL"}
      [] t \in {"HIGH", "high", "VERY HIGH", "HIGH RISK JURISDICTION"} -> {"HIGH"}
      [] t \in {"MEDIUM", "medium"} -> {"MEDIUM"}
      [] t \in {"LOW", "low"} -> {"LOW"}
      [] OTHER -> {}

LevelWordsOf(line) == UNION {LevelWords(line[i]) : i \in 1..Len(line)}

\* the bullets of a confidence subsection that hold "confidence:"
ConfidenceBullets(text) ==
    {k \in 4..Len(text) : text[k][1] = "-" /\ InLineLower("confidence:", text[k])}

\* C24: in a confidence subsection with one bullet holding "confidence:",
\* confidence_level is the level that bullet names, the first of CRITICAL,
\* HIGH, MEDIUM, LOW when it names several, and MEDIUM when it names none;
\* the level is always one of the four.
C24_ConfidenceFromLevelWord ==
    parsed.called
    => /\ parsed.audit.confidence_level \in {"CRITICAL", "HIGH", "MEDIUM", "LOW"}
       /\ (parsed.text \in ConfidenceTrailers
           /\ Cardinality(ConfidenceBullets(parsed.text)) = 1)
          => LET line == parsed.text[CHOOSE k \in ConfidenceBullets(parsed.text) : TRUE]
                 named == LevelWordsOf(line)
                 first == CHOOSE k \in 1..4 :
                             /\ ConfidenceLevels[k] \in named
                             /\ \A j \in 1..(k - 1) : ConfidenceLevels[j] \notin named
             IN parsed.audit.confidence_level =
                   IF named = {} THEN "MEDIUM" ELSE ConfidenceLevels[first]


\* C28: in every dictionary get_alert_summary returns, counted while the
\* alert operations of another session commit between its queries, total
\* is the sum of critical, high, medium and low.
C28_SummaryTotalIsSum ==
    out.op = "get_alert_summary"
    => out.ret.total = out.ret.critical + out.ret.high + out.ret.medium + out.ret.low


\* C25: through the review page a case that was approved can be filed:
\* whenever a case has status APPROVED and the page is at rest, the case
\* can be selected on the page and the file action is offered for it to a
\* user who may file.
C25_ApprovedCaseCanBeFiled ==
    \A c \in DOMAIN cases :
        (cases[c].status = "APPROVED" /\ sess["A"].pc = "idle" /\ nCalls < MaxCalls)
        => ENABLED (\E ref \in Refs : show_review_approve("SUPERVISOR", c, "file_sar", ref))

\* C27: a save_edited_narrative the page calls for a user of role
\* READ_ONLY changes no edited_narrative and appends no NarrativeVersion.
C27_ReadOnlyNeverEdits ==
    [][(Finishes("A", "save_edited_narrative") /\ sess["A"].role = "READ_ONLY")
          => /\ cases'[sess["A"].case_id].edited_narrative
                   = cases[sess["A"].case_id].edited_narrative
             /\ versions' = versions]_vars


GenerationOutcomes == {"SAR_GENERATION_COMPLETED", "SAR_GENERATION_FAILED"}

\* the outcome entry appended in this step is the one the claim describes
OutcomeAsDescribed ==
    LET entry == auditLog'[Len(auditLog')] IN
    (Len(auditLog') = Len(auditLog) + 1 /\ entry.action \in GenerationOutcomes)
    => /\ auditLog[Len(auditLog)].action = "SAR_GENERATION_STARTED"
       /\ entry.action = "SAR_GENERATION_COMPLETED"
          => /\ entry.case_id = Len(cases')
             /\ Len(cases') = Len(cases) + 1
             /\ cases'[entry.case_id].status = "IN_REVIEW"
             /\ cases'[entry.case_id].narrative_version = 1
             /\ Len(VersionsOf(versions', entry.case_id)) = 1
             /\ VersionsOf(versions', entry.case_id)[1].change_type = "GENERATED"
       /\ entry.action = "SAR_GENERATION_FAILED"
          => /\ ~entry.success
             /\ cases' = cases
             /\ versions' = versions

\* C29: in the generate-from-alert flow every SAR_GENERATION_STARTED entry
\* is eventually followed by one outcome entry, which is either
\* SAR_GENERATION_COMPLETED of a newly created case (IN_REVIEW, version 1,
\* one GENERATED version) or SAR_GENERATION_FAILED with success false and
\* no case or version row created.
C29_StartedHasOneOutcome ==
    /\ \A i \in 1..MaxCalls :
          (Len(auditLog) >= i /\ auditLog[i].action = "SAR_GENERATION_STARTED")
          ~> (Len(auditLog) > i /\ auditLog[i + 1].action \in GenerationOutcomes)
    /\ [][OutcomeAsDescribed]_vars

====
